---- MODULE Spec2Model ----
(***************************************************************************)
(* Model of stravalib/model.py: the entity base hierarchy (BaseEntity,     *)
(* BoundEntity, LoadableEntity) and the two concrete entities that carry   *)
(* lazy relations, Club and Activity.  One entity instance is followed     *)
(* from its construction by deserialize through from_dict, the lazy        *)
(* properties and hydrate.                                                 *)
(*                                                                         *)
(* Python values are records [t, v, u, m]: t is the Python type, v its     *)
(* decimal or textual form, so that str(7) and int("7") are real           *)
(* conversions, u the unit a number is tagged with, and m the items of a   *)
(* mapping.                                                                *)
(***************************************************************************)
EXTENDS Naturals, Sequences, FiniteSets

VARIABLES
    cls,     \* class of the live instance: "none", "Club" or "Activity"
    idict,   \* the instance's __dict__ (name -> value)
    data,    \* values held by the Attribute descriptors for the instance
    cdict,   \* classes whose dictionary has gained __annotations__ at run time
    ncalls,  \* number of fetches made through the bound client for the instance
    last     \* the last operation: its inputs, outcome and client calls

vars == <<cls, idict, data, cdict, ncalls, last>>

\* ------------------------------------------------------------ bounds
MaxLen == 2      \* keys in one payload
MaxCalls == 2    \* client fetches followed per instance

\* ------------------------------------------------------------ values
\* The values of the model: JSON scalars and lists (what a payload holds),
\* the objects the client hands back, what the class and the interpreter
\* supply, and what the descriptors store.  v is the value's Python text.
\* u is the unit a number is tagged with ("" for none), m the items of a
\* mapping (none for any other value).
Value(ty, s) == [t |-> ty, v |-> s, u |-> "", m |-> << >>]
None == Value("none", "")
Int(s) == Value("int", s)
Str(s) == Value("str", s)
Float(s) == Value("float", s)
Bool(b) == Value("bool", IF b THEN "True" ELSE "False")
ListObj(s) == Value("list", s)
ClientObj(s) == Value("client", s)
GearObj(s) == Value("gear", s)
\* A class-level value of Activity that is a 1-tuple holding an Attribute.
AttributeTuple == Value("tuple", "(Attribute,)")
BoundMethod(s) == Value("method", s)
ClassObj(s) == Value("class", s)
LoggerObj(c) == Value("logger", "stravalib.model." \o c)
\* The mapping with items f (name -> value) whose Python text is s.
Mapping(s, f) == [Value("dict", s) EXCEPT !.m = f]
\* The instance's __dict__ read as a value: a mapping of the instance's
\* attributes (its text is not followed).
SelfDict(id) == Mapping("self.__dict__", id)

\* Python truth value of a value (used by `not self.bind_client`).
Truthy(x) ==
    CASE x.t = "none" -> FALSE
      [] x.t = "int" -> x.v # "0"
      [] x.t = "float" -> x.v \notin {"0.0", "-0.0"}
      [] x.t = "bool" -> x.v = "True"
      [] x.t = "str" -> x.v # ""
      [] x.t \in {"list", "entities"} -> x.v # "[]"
      [] x.t = "dict" -> DOMAIN x.m # {}
      [] OTHER -> TRUE

EmptyFn == << >>
Put(f, k, x) == [y \in (DOMAIN f) \cup {k} |-> IF y = k THEN x ELSE f[y]]

\* ------------------------------------------------------------ class tables
Classes == {"Club", "Activity"}

\* Names bound at class level to an Attribute(int, ...) descriptor.
IntAttrs(c) ==
    IF c = "Club" THEN {"resource_state", "id"}
    ELSE {"resource_state", "id", "truncated"}

\* Names bound at class level to an Attribute(str, ...) descriptor.
StrAttrs(c) ==
    IF c = "Club" THEN {"name"}
    ELSE {"guid", "external_id", "upload_id", "name", "type", "gear_id"}

\* Names bound to an Attribute(float, ...) descriptor.
FloatAttrs(c) ==
    IF c = "Club" THEN {}
    ELSE {"distance", "total_elevation_gain", "average_speed", "max_speed", "calories"}

\* Names bound to an Attribute(bool, ...) descriptor.
BoolAttrs(c) ==
    IF c = "Club" THEN {}
    ELSE {"trainer", "commute", "manual", "private", "flagged", "has_kudoed"}

\* Names bound to the specialised descriptors.
IntervalAttrs(c) == IF c = "Club" THEN {} ELSE {"moving_time", "elapsed_time"}
TimestampAttrs(c) == IF c = "Club" THEN {} ELSE {"start_date", "start_date_local"}
TimezoneAttrs(c) == IF c = "Club" THEN {} ELSE {"timezone"}
LocationAttrs(c) == IF c = "Club" THEN {} ELSE {"start_latlng", "end_latlng"}
EntityAttrs(c) == IF c = "Club" THEN {} ELSE {"map"}
CollectionAttrs(c) ==
    IF c = "Club" THEN {}
    ELSE {"segment_efforts", "splits_metric", "splits_standard", "best_efforts"}

\* Names bound at class level to a descriptor of any kind.
AttrNamesIn(c) ==
    IntAttrs(c) \cup StrAttrs(c) \cup FloatAttrs(c) \cup BoolAttrs(c)
        \cup IntervalAttrs(c) \cup TimestampAttrs(c) \cup TimezoneAttrs(c)
        \cup LocationAttrs(c) \cup EntityAttrs(c) \cup CollectionAttrs(c)

\* The descriptor names of each class: a class body is fixed, so the table is
\* computed once.
AttrNamesOf == [c \in Classes |-> AttrNamesIn(c)]
AttrNames(c) == AttrNamesOf[c]

\* Names whose class-level value is `Attribute(...),` : the trailing comma of
\* the class body makes the value a tuple, which is no descriptor.
TupleNames(c) ==
    IF c = "Activity"
    THEN {"location_city", "location_state", "start_latitude", "start_longitude",
          "achievement_count", "kudos_count", "comment_count", "athlete_count",
          "photo_count"}
    ELSE {}

\* Names bound at class level to the plain value None.
NoneNames(c) ==
    IF c = "Activity" THEN {"bind_client", "athlete", "_gear"} ELSE {"bind_client"}

\* Read-only properties (no setter).
PropertyNames(c) == IF c = "Activity" THEN {"gear"} ELSE {"members", "activities"}

\* Functions of the class body and of its bases.
MethodNames(c) ==
    {"from_dict", "deserialize", "hydrate", "assert_bind_client", "__init__", "__repr__"}

\* Names every class has from object and from the class statement.
ObjectNames ==
    {"__class__", "__delattr__", "__dict__", "__dir__", "__doc__", "__eq__",
     "__format__", "__ge__", "__getattribute__", "__getstate__", "__gt__",
     "__hash__", "__init_subclass__", "__le__", "__lt__", "__metaclass__",
     "__module__", "__ne__", "__new__", "__reduce__", "__reduce_ex__",
     "__setattr__", "__sizeof__", "__str__", "__subclasshook__", "__weakref__"}

\* Names the class object answers through its metaclass, type; an instance
\* does not have them.
TypeNames ==
    {"__annotations__", "__base__", "__bases__", "__basicsize__", "__call__", "__dictoffset__",
     "__flags__", "__instancecheck__", "__itemsize__", "__mro__", "__name__",
     "__or__", "__prepare__", "__qualname__", "__ror__", "__subclasscheck__",
     "__subclasses__", "__text_signature__", "__weakrefoffset__", "mro"}

\* hasattr(self.__class__, k): whether the class has the name.
NamesOf ==
    [c \in Classes |->
        AttrNames(c) \cup TupleNames(c) \cup NoneNames(c)
            \cup PropertyNames(c) \cup MethodNames(c) \cup ObjectNames \cup TypeNames]
HasAttr(c, k) == k \in NamesOf[c]

\* The classes that have an __annotations__ entry once hasattr(c, k) has been
\* evaluated: type answers the name for a class by creating the entry.
AfterHasAttr(cd, c, k) == IF k = "__annotations__" THEN cd \cup {c} ELSE cd

\* The names the class body writes as field declarations `x = Attribute(...)`.
DeclaredNames(c) == AttrNames(c) \cup TupleNames(c)

\* The docstring of the class body.
ClassDoc(c) ==
    IF c = "Club"
    THEN "\n    Class to represent a club.\n    \n    Currently summary and detail resource states have the same attributes.\n    "
    ELSE "\n    \n    "

\* The value kind of the descriptor bound to k: the first argument of
\* Attribute(...), or the specialised descriptor class.
AttrType(c, k) ==
    CASE k \in IntAttrs(c) -> "int"
      [] k \in StrAttrs(c) -> "str"
      [] k \in FloatAttrs(c) -> "float"
      [] k \in BoolAttrs(c) -> "bool"
      [] k \in IntervalAttrs(c) -> "interval"
      [] k \in TimestampAttrs(c) -> "timestamp"
      [] k \in TimezoneAttrs(c) -> "timezone"
      [] k \in LocationAttrs(c) -> "location"
      [] k \in EntityAttrs(c) -> "entity"
      [] k \in CollectionAttrs(c) -> "collection"

\* The units= argument of the descriptor bound to k ("" when there is none).
AttrUnits(c, k) ==
    IF c = "Activity" /\ k \in {"distance", "total_elevation_gain"} THEN "m" ELSE ""

\* ------------------------------------------------------------ descriptors
\* The decimal strings int() accepts among the strings of the model, and the
\* floats they denote.
Numerals == {"0", "1", "5", "7"}
FloatText(n) == n \o ".0"
FloatNumerals == { FloatText(n) : n \in Numerals }

Converted(x) == [exc |-> "", val |-> x]
ConversionFails == [exc |-> "DeserializationError", val |-> None]

\* ty(x) for the primitive types; a value of the type is kept as it is
\* (a bool is an int).
Coerce(ty, x) ==
    CASE ty = "int" ->
            IF x.t \in {"int", "bool"} THEN Converted(x)
            ELSE IF x.t = "str" /\ x.v \in Numerals THEN Converted(Int(x.v))
            ELSE IF x.t = "float" /\ x.v \in FloatNumerals
                 THEN Converted(Int(CHOOSE n \in Numerals : FloatText(n) = x.v))
            ELSE ConversionFails
      [] ty = "float" ->
            IF x.t = "float" THEN Converted(x)
            ELSE IF x.t = "int" THEN Converted(Float(FloatText(x.v)))
            ELSE IF x.t = "bool" THEN Converted(Float(IF Truthy(x) THEN "1.0" ELSE "0.0"))
            ELSE IF x.t = "str" /\ x.v \in Numerals THEN Converted(Float(FloatText(x.v)))
            ELSE IF x.t = "str" /\ x.v \in FloatNumerals THEN Converted(Float(x.v))
            ELSE ConversionFails
      [] ty = "bool" -> Converted(Bool(Truthy(x)))
      [] ty = "str" -> IF x.t = "str" THEN Converted(x) ELSE Converted(Str(x.v))

\* The number x tagged with the unit un.
Quantity(x, un) == [x EXCEPT !.u = un]

\* The store-time conversion of a descriptor of kind ty with units un.  None
\* is stored as None (an absent collection as the empty sequence); a value
\* already converted is kept.
Unmarshal(ty, un, x) ==
    IF x = None THEN Converted(IF ty = "collection" THEN Value("entities", "[]") ELSE None)
    ELSE IF ty \in {"int", "float", "bool", "str"} THEN
        IF x.u # "" /\ un # "" THEN Converted(x)
        ELSE LET r == Coerce(ty, x) IN
             IF r.exc = "" /\ un # "" THEN Converted(Quantity(r.val, un)) ELSE r
    ELSE IF ty = "interval" THEN
        IF x.u # "" THEN Converted(x)
        ELSE LET r == Coerce("int", x) IN
             IF r.exc = "" THEN Converted(Quantity(r.val, "s")) ELSE r
    ELSE IF ty = "timestamp" THEN
        IF x.t = "datetime" THEN Converted(x)
        ELSE IF x.t = "str" THEN Converted(Value("datetime", x.v))
        ELSE IF x.t = "int" THEN Converted(Value("datetime", "@" \o x.v))
        ELSE ConversionFails
    ELSE IF ty = "timezone" THEN
        IF x.t = "tz" THEN Converted(x)
        ELSE IF x.t = "str" THEN Converted(Value("tz", x.v))
        ELSE ConversionFails
    ELSE IF ty = "location" THEN
        IF x.t = "latlon" THEN Converted(x)
        ELSE IF x.t = "list" THEN
            Converted(IF x.v = "[]" THEN None ELSE Value("latlon", x.v))
        ELSE ConversionFails
    ELSE IF ty = "entity" THEN
        IF x.t = "entity" THEN Converted(x)
        ELSE IF x.t = "dict" THEN Converted(Value("entity", x.v))
        ELSE ConversionFails
    ELSE
        IF x.t = "entities" THEN Converted(x)
        ELSE IF x.t = "list" THEN Converted(Value("entities", x.v))
        ELSE ConversionFails

\* ------------------------------------------------------------ attribute access
Raise(e, id) == [exc |-> e, val |-> None, idict |-> id, calls |-> <<>>]
Return(x, id, cs) == [exc |-> "", val |-> x, idict |-> id, calls |-> cs]
Call(method, arg, ret) == <<[m |-> method, arg |-> arg, ret |-> ret]>>

\* getattr(self, k) on an instance of class c, where cd are the classes that
\* have gained an __annotations__ entry; a property runs its getter, for which
\* `ret` is what the client returns if the getter calls it.  The result holds
\* the exception or the value, the instance's __dict__ afterwards and the
\* client calls made.
RECURSIVE GetAttr(_, _, _, _, _, _)

\* self.<k> for a name k that is neither __annotations__ nor a property: the
\* run-time entries of the class play no part in it.
Read(c, id, da, k) == GetAttr({}, c, id, da, k, None)

\* self.bind_client
bind_client(c, id, da) == Read(c, id, da, "bind_client").val

\* BoundEntity.assert_bind_client: "" when it returns, else the exception.
assert_bind_client(c, id, da) ==
    IF bind_client(c, id, da) = None THEN "UnboundEntity" ELSE ""

\* The call self.assert_bind_client(): an instance attribute of that name
\* hides the method and is not callable.
CallAssertBindClient(c, id, da) ==
    IF Read(c, id, da, "assert_bind_client").val.t # "method" THEN "TypeError"
    ELSE assert_bind_client(c, id, da)

\* Club.members; `ret` is what get_club_members returns when it is called.
\* The class body defines no _members, so the read of self._members is
\* decided by the instance's __dict__ alone.
members(id, da, ret) ==
    LET cur == Read("Club", id, da, "_members") IN
    IF cur.exc # "" THEN Raise(cur.exc, id)
    ELSE IF cur.val = None THEN
        IF CallAssertBindClient("Club", id, da) # ""
        THEN Raise(CallAssertBindClient("Club", id, da), id)
        ELSE IF bind_client("Club", id, da).t # "client" THEN Raise("AttributeError", id)
        ELSE Return(ret, Put(id, "_members", ret),
                    Call("get_club_members", Read("Club", id, da, "id").val, ret))
    ELSE Return(cur.val, id, <<>>)

\* Club.activities; `ret` is what get_club_activities returns when it is called.
activities(id, da, ret) ==
    LET cur == Read("Club", id, da, "_activities") IN
    IF cur.exc # "" THEN Raise(cur.exc, id)
    ELSE IF cur.val = None THEN
        IF CallAssertBindClient("Club", id, da) # ""
        THEN Raise(CallAssertBindClient("Club", id, da), id)
        ELSE IF bind_client("Club", id, da).t # "client" THEN Raise("AttributeError", id)
        ELSE Return(ret, Put(id, "_activities", ret),
                    Call("get_club_activities", Read("Club", id, da, "id").val, ret))
    ELSE Return(cur.val, id, <<>>)

\* Activity.gear without the test of the cache: every read with a gear_id fetches.
gear_refetch(id, da, ret) ==
    LET gid == Read("Activity", id, da, "gear_id").val IN
    IF CallAssertBindClient("Activity", id, da) # ""
    THEN Raise(CallAssertBindClient("Activity", id, da), id)
    ELSE IF gid = None THEN Return(Read("Activity", id, da, "_gear").val, id, <<>>)
    ELSE IF bind_client("Activity", id, da).t # "client" THEN Raise("AttributeError", id)
    ELSE Return(ret, Put(id, "_gear", ret), Call("get_gear", gid, ret))

\* Activity.gear; `ret` is what get_gear returns when it is called.
gear(id, da, ret) ==
    LET cur == Read("Activity", id, da, "_gear")
        gid == Read("Activity", id, da, "gear_id").val
    IN
    IF cur.val = None THEN
        IF CallAssertBindClient("Activity", id, da) # ""
        THEN Raise(CallAssertBindClient("Activity", id, da), id)
        ELSE IF gid = None THEN Return(cur.val, id, <<>>)
        ELSE IF bind_client("Activity", id, da).t # "client" THEN Raise("AttributeError", id)
        ELSE Return(ret, Put(id, "_gear", ret), Call("get_gear", gid, ret))
    ELSE Return(cur.val, id, <<>>)

\* The lookup order of getattr: a data descriptor of the class (an Attribute,
\* a property, __class__, __dict__, __weakref__), then the instance's
\* __dict__, then the other values of the class.
GetAttr(cd, c, id, da, k, ret) ==
    IF k \in AttrNames(c) THEN Return(IF k \in DOMAIN da THEN da[k] ELSE None, id, <<>>)
    ELSE IF k \in PropertyNames(c) THEN
        CASE k = "gear" -> gear(id, da, ret)
          [] k = "members" -> members(id, da, ret)
          [] k = "activities" -> activities(id, da, ret)
    ELSE IF k = "__class__" THEN Return(ClassObj("stravalib.model." \o c), id, <<>>)
    ELSE IF k = "__dict__" THEN Return(SelfDict(id), id, <<>>)
    ELSE IF k = "__weakref__" THEN Return(None, id, <<>>)
    ELSE IF k \in DOMAIN id THEN Return(id[k], id, <<>>)
    ELSE IF k \in NoneNames(c) THEN Return(None, id, <<>>)
    ELSE IF k \in TupleNames(c) THEN Return(AttributeTuple, id, <<>>)
    ELSE IF k = "__metaclass__" THEN Return(ClassObj("abc.ABCMeta"), id, <<>>)
    ELSE IF k = "__doc__" THEN Return(Str(ClassDoc(c)), id, <<>>)
    ELSE IF k = "__module__" THEN Return(Str("stravalib.model"), id, <<>>)
    ELSE IF k = "__annotations__" /\ c \in cd THEN Return(Mapping("{}", EmptyFn), id, <<>>)
    ELSE IF k \in MethodNames(c) \cup ObjectNames THEN Return(BoundMethod(k), id, <<>>)
    ELSE Raise("AttributeError", id)

\* The instance __dict__ that the assignment self.__dict__ = x installs: the
\* items of the mapping x, whatever the instance held before.
InstanceDict(x) == x.m

\* setattr(self, k, x), for x a value a payload can hold.
SetAttr(c, id, da, k, x) ==
    IF k \in AttrNames(c) THEN
        LET u == Unmarshal(AttrType(c, k), AttrUnits(c, k), x) IN
        IF u.exc # "" THEN [exc |-> u.exc, idict |-> id, data |-> da]
        ELSE [exc |-> "", idict |-> id, data |-> Put(da, k, u.val)]
    ELSE IF k \in PropertyNames(c) \cup {"__weakref__"} THEN
        [exc |-> "AttributeError", idict |-> id, data |-> da]
    ELSE IF k = "__class__" THEN
        [exc |-> "TypeError", idict |-> id, data |-> da]
    ELSE IF k = "__dict__" THEN
        IF x.t = "dict" THEN [exc |-> "", idict |-> InstanceDict(x), data |-> da]
        ELSE [exc |-> "TypeError", idict |-> id, data |-> da]
    ELSE [exc |-> "", idict |-> Put(id, k, x), data |-> da]

\* ------------------------------------------------------------ from_dict
\* Whether self.log.debug(...) / self.log.warning(...) can be called.
HasLog(c, id, da) ==
    LET log == Read(c, id, da, "log") IN log.exc = "" /\ log.val.t = "logger"

Ended(e, id, da, cd) == [exc |-> e, idict |-> id, data |-> da, cdict |-> cd]

\* from_dict with the failure of a setattr swallowed: the loop goes on.
RECURSIVE FromDictFrom_continue(_, _, _, _, _, _)
FromDictFrom_continue(cd, c, id, da, d, i) ==
    IF i > Len(d) THEN Ended("", id, da, cd)
    ELSE IF ~HasLog(c, id, da)
         THEN Ended("AttributeError", id, da, AfterHasAttr(cd, c, d[i].k))
    ELSE IF HasAttr(c, d[i].k) THEN
        LET r == SetAttr(c, id, da, d[i].k, d[i].v) IN
        FromDictFrom_continue(AfterHasAttr(cd, c, d[i].k), c, r.idict, r.data, d, i + 1)
    ELSE FromDictFrom_continue(AfterHasAttr(cd, c, d[i].k), c, id, da, d, i + 1)

\* The loop of from_dict from item i of payload d on.  Each item first asks
\* the class for its key and then reads self.log, to log the item; an item
\* whose key the class has is set, any other is skipped.  An exception ends
\* the loop.
RECURSIVE FromDictFrom(_, _, _, _, _, _)
FromDictFrom(cd, c, id, da, d, i) ==
    IF i > Len(d) THEN Ended("", id, da, cd)
    ELSE IF ~HasLog(c, id, da)
         THEN Ended("AttributeError", id, da, AfterHasAttr(cd, c, d[i].k))
    ELSE IF HasAttr(c, d[i].k) THEN
        LET r == SetAttr(c, id, da, d[i].k, d[i].v) IN
        IF r.exc # "" THEN Ended(r.exc, r.idict, r.data, AfterHasAttr(cd, c, d[i].k))
        ELSE FromDictFrom(AfterHasAttr(cd, c, d[i].k), c, r.idict, r.data, d, i + 1)
    ELSE FromDictFrom(AfterHasAttr(cd, c, d[i].k), c, id, da, d, i + 1)

from_dict(cd, c, id, da, d) == FromDictFrom(cd, c, id, da, d, 1)

\* The call self.from_dict(d) on a live instance: an instance attribute of
\* that name hides the method and is not callable.
CallFromDict(cd, c, id, da, d) ==
    IF Read(c, id, da, "from_dict").val.t # "method" THEN Ended("TypeError", id, da, cd)
    ELSE from_dict(cd, c, id, da, d)

\* BoundEntity.__init__(bind_client) followed by BaseEntity.__init__ with no
\* keyword arguments: the instance holds bind_client and its logger.
NewIdict(c, bc) ==
    [x \in {"bind_client", "log"} |-> IF x = "log" THEN LoggerObj(c) ELSE bc]

\* BoundEntity.deserialize(v, bind_client)
deserialize(cd, c, d, bc) == from_dict(cd, c, NewIdict(c, bc), EmptyFn, d)

\* LoadableEntity.hydrate without the test of bind_client.
hydrate_unguarded(c, id, da) == Raise("NotImplementedError", id)

\* LoadableEntity.hydrate: the statements after the second raise are dead.
hydrate(c, id, da) ==
    IF ~Truthy(bind_client(c, id, da)) THEN Raise("UnboundEntity", id)
    ELSE Raise("NotImplementedError", id)

\* The call self.hydrate(): an instance attribute of that name hides the method.
CallHydrate(c, id, da) ==
    IF Read(c, id, da, "hydrate").val.t # "method" THEN Raise("TypeError", id)
    ELSE hydrate(c, id, da)

\* ------------------------------------------------------------ inputs
Clients == {ClientObj("c1")}

\* What get_gear returns: a gear entity, or None when the client has none.
GearResults == {None, GearObj("g1")}

\* What get_club_members and get_club_activities return.
ListResults == {ListObj("[]"), ListObj("[e1]")}

\* The key/value pairs payloads are made of.
Items ==
    { [k |-> "gear_id", v |-> Int("7")],
      [k |-> "_gear", v |-> Str("x")],
      [k |-> "bind_client", v |-> Int("0")],
      [k |-> "gear", v |-> Str("x")],
      [k |-> "__dict__", v |-> Mapping("{}", EmptyFn)],
      [k |-> "assert_bind_client", v |-> Str("x")],
      [k |-> "hydrate", v |-> Str("x")],
      [k |-> "from_dict", v |-> Str("x")] }

\* A payload is a dict: its keys are distinct; the sequence is its iteration order.
Payloads ==
    UNION { { d \in [1..n -> Items] :
                \A i, j \in 1..n : i # j => d[i].k # d[j].k } : n \in 0..MaxLen }

Keys(d) == { d[i].k : i \in 1..Len(d) }

\* ------------------------------------------------------------ state machine
NoLast == [op |-> "init", on |-> "none", arg |-> <<>>, client |-> None, exc |-> "",
           val |-> None, calls |-> <<>>]

Init ==
    /\ cls = "none"
    /\ idict = EmptyFn
    /\ data = EmptyFn
    /\ cdict = {}
    /\ ncalls = 0
    /\ last = NoLast

\* E.deserialize(d, bind_client=bc) makes the instance that is followed from
\* then on; when from_dict raises, no instance is returned to the caller, who
\* can call deserialize again.
Deserialize ==
    /\ cls = "none"
    /\ \E c \in Classes, d \in Payloads, bc \in Clients \cup {None} :
        LET r == deserialize(cdict, c, d, bc) IN
        /\ cdict' = r.cdict
        /\ cls' = IF r.exc = "" THEN c ELSE "none"
        /\ idict' = IF r.exc = "" THEN r.idict ELSE EmptyFn
        /\ data' = IF r.exc = "" THEN r.data ELSE EmptyFn
        /\ ncalls' = 0
        /\ last' = [op |-> "deserialize", on |-> c, arg |-> d, client |-> bc, exc |-> r.exc,
                    val |-> None, calls |-> <<>>]

\* self.from_dict(d) on the live instance.
FromDict ==
    /\ cls # "none"
    /\ \E d \in Payloads :
        LET r == CallFromDict(cdict, cls, idict, data, d) IN
        /\ cdict' = r.cdict
        /\ idict' = r.idict
        /\ data' = r.data
        /\ last' = [op |-> "from_dict", on |-> cls, arg |-> d, client |-> None, exc |-> r.exc,
                    val |-> None, calls |-> <<>>]
    /\ UNCHANGED <<cls, ncalls>>

\* The outcome r of an operation op that does not touch the descriptors.
Outcome(op, r) ==
    /\ Len(r.calls) > 0 => ncalls < MaxCalls
    /\ idict' = r.idict
    /\ ncalls' = ncalls + Len(r.calls)
    /\ last' = [op |-> op, on |-> cls, arg |-> <<>>, client |-> None, exc |-> r.exc,
                val |-> r.val, calls |-> r.calls]
    /\ UNCHANGED <<cls, data, cdict>>

\* Reading activity.gear
AccessGear ==
    /\ cls = "Activity"
    /\ \E ret \in GearResults : Outcome("gear", gear(idict, data, ret))

\* Reading club.members
AccessMembers ==
    /\ cls = "Club"
    /\ \E ret \in ListResults : Outcome("members", members(idict, data, ret))

\* Reading club.activities
AccessActivities ==
    /\ cls = "Club"
    /\ \E ret \in ListResults : Outcome("activities", activities(idict, data, ret))

\* Calling entity.hydrate()
Hydrate ==
    /\ cls # "none"
    /\ Outcome("hydrate", CallHydrate(cls, idict, data))

Next ==
    \/ Deserialize
    \/ FromDict
    \/ AccessGear
    \/ AccessMembers
    \/ AccessActivities
    \/ Hydrate

Spec == Init /\ [][Next]_vars

\* Construction followed by reads of the lazy gear relation only.
NextAccess ==
    \/ Deserialize
    \/ AccessGear

SpecAccess == Init /\ [][NextAccess]_vars

\* ------------------------------------------------------------ observations
BindClient == bind_client(cls, idict, data)
\* What reading the name k, which is no property, gives.
Cached(c, id, da, k) == Read(c, id, da, k).val
IsAccess(l) == l.op \in {"members", "activities"}

\* Whether setting item `it` on an instance of class c raises.
Raises(c, it) ==
    HasAttr(c, it.k) /\ SetAttr(c, EmptyFn, EmptyFn, it.k, it.v).exc # ""

\* What getattr gives for the key of item `it` once the item has been set.
NewVal(c, it) ==
    IF it.k \in AttrNames(c)
    THEN Unmarshal(AttrType(c, it.k), AttrUnits(c, it.k), it.v).val
    ELSE it.v

\* Whether item `it`, when it is set, replaces the instance's __dict__.
Replaces(c, it) == it.k = "__dict__" /\ ~Raises(c, it)

\* Whether from_dict(d) on the instance fails in the setattr of some key: the
\* instance can log, some item cannot be set, and no item before the first
\* such one takes the instance's __dict__, and with it self.log, away.
FailsInSetAttr(c, id, da, d) ==
    /\ HasLog(c, id, da)
    /\ \E n \in 1..Len(d) :
          Raises(c, d[n]) /\ \A j \in 1..(n - 1) : ~Raises(c, d[j]) /\ ~Replaces(c, d[j])

\* The index of the first item of d whose setting raises.
FirstFailing(c, d) ==
    CHOOSE i \in 1..Len(d) : Raises(c, d[i]) /\ \A j \in 1..(i - 1) : ~Raises(c, d[j])

\* The items of d whose key is a declared attribute of class c.
DeclaredOnly(c, d) == SelectSeq(d, LAMBDA it : it.k \in DeclaredNames(c))

\* ------------------------------------------------------------ claims

\* C1: reading members or activities of a Club that has no bound client fails
\* with UnboundEntity and with no other error, and no client fetch is made.
C1_UnboundClubRaisesUnboundEntity ==
    (cls = "Club" /\ IsAccess(last) /\ BindClient = None)
        => (last.exc = "UnboundEntity" /\ last.calls = <<>>)

\* C2: reading members (activities) of a Club bound to a client succeeds; it
\* either returns the cached value without a client call, or makes exactly one
\* call of get_club_members (get_club_activities) with the club's id, whose
\* result it caches and returns.
C2_BoundClubFetchesOnceAndCaches ==
    (cls = "Club" /\ IsAccess(last) /\ BindClient \in Clients) =>
        LET cache == IF last.op = "members" THEN "_members" ELSE "_activities"
            method == IF last.op = "members" THEN "get_club_members"
                      ELSE "get_club_activities"
        IN  /\ last.exc = ""
            /\ Cached("Club", idict, data, cache) = last.val
            /\ \/ last.calls = <<>>
               \/ /\ Len(last.calls) = 1
                  /\ last.calls[1].m = method
                  /\ last.calls[1].arg = Cached("Club", idict, data, "id")
                  /\ last.calls[1].ret = last.val

\* C3: the keys of a payload that are no declared attribute of the class are
\* ignored by from_dict and deserialize: the call ends (outcome and entity
\* state) as it does on the payload without those keys.
C3_UndeclaredKeysIgnored ==
    [][ /\ last'.op = "from_dict" =>
            LET r == CallFromDict(cdict, cls, idict, data, DeclaredOnly(cls, last'.arg)) IN
            last'.exc = r.exc /\ idict' = r.idict /\ data' = r.data
        /\ last'.op = "deserialize" =>
            LET r == deserialize(cdict, last'.on, DeclaredOnly(last'.on, last'.arg),
                                 last'.client) IN
            last'.exc = r.exc /\ cls' = last'.on /\ idict' = r.idict /\ data' = r.data
      ]_vars

\* C4: after deserialize, every declared attribute whose key was absent from
\* the payload reads as None.
C4_AbsentAttributesReadNone ==
    (last.op = "deserialize" /\ last.exc = "") =>
        \A k \in DeclaredNames(cls) \ Keys(last.arg) :
            /\ Read(cls, idict, data, k).exc = ""
            /\ Read(cls, idict, data, k).val = None

\* C5: a call of hydrate always fails and changes no attribute, cache or
\* bind_client and invokes no client method; LoadableEntity.hydrate (the call
\* reaches it unless a payload put an instance attribute in its place) fails
\* with UnboundEntity when the entity has no bound client and with
\* NotImplementedError when it has one.
C5_HydrateFailsByBinding ==
    [][ last'.op = "hydrate" =>
            /\ last'.exc # ""
            /\ idict' = idict /\ data' = data
            /\ last'.calls = <<>> /\ ncalls' = ncalls
            /\ Cached(cls, idict, data, "hydrate").t = "method" =>
                  /\ last'.exc \in {"UnboundEntity", "NotImplementedError"}
                  /\ BindClient = None => last'.exc = "UnboundEntity"
                  /\ BindClient \in Clients => last'.exc = "NotImplementedError"
      ]_vars

\* C5 witness: hydrate has failed with NotImplementedError on an entity bound
\* to a client.
C5_Witness ==
    /\ cls \in Classes /\ last.op = "hydrate" /\ last.exc = "NotImplementedError"
    /\ BindClient \in Clients

\* C6: the instance deserialize(P, bind_client=c) returns has bind_client = c.
C6_DeserializeKeepsBindClient ==
    (last.op = "deserialize" /\ last.exc = "") => BindClient = last.client

\* C7 as stated: over any sequence of reads of gear on an Activity bound to a
\* client, get_gear is invoked at most once for the instance.
C7_AtMostOneFetch ==
    (cls = "Activity" /\ BindClient \in Clients) => ncalls <= 1

\* C7 as amended: on each read of gear on an Activity bound to a client, a
\* non-None cache is returned without a client call.  With an empty cache the
\* guard assert_bind_client is called first: if a payload put an instance
\* attribute in the guard's place the read fails with TypeError, calls no
\* client method and changes nothing; otherwise gear_id None gives None
\* without a client call, and a gear_id makes exactly one call
\* get_gear(gear_id), whose result is stored in the cache and returned, so a
\* later read fetches again only while every earlier result was None.
C7_FetchUntilNonNone ==
    [][ (last'.op = "gear" /\ cls = "Activity" /\ BindClient \in Clients) =>
            LET g == Cached("Activity", idict, data, "_gear")
                gid == Cached("Activity", idict, data, "gear_id")
                guarded == Cached("Activity", idict, data, "assert_bind_client").t = "method"
            IN  /\ g # None =>
                      /\ last'.exc = ""
                      /\ last'.val = g /\ last'.calls = <<>>
                      /\ ncalls' = ncalls /\ idict' = idict
                /\ (g = None /\ ~guarded) =>
                      /\ last'.exc = "TypeError" /\ last'.calls = <<>>
                      /\ ncalls' = ncalls /\ idict' = idict
                /\ (g = None /\ guarded /\ gid = None) =>
                      /\ last'.exc = ""
                      /\ last'.val = None /\ last'.calls = <<>>
                      /\ ncalls' = ncalls /\ idict' = idict
                /\ (g = None /\ guarded /\ gid # None) =>
                      /\ last'.exc = ""
                      /\ Len(last'.calls) = 1 /\ ncalls' = ncalls + 1
                      /\ last'.calls[1].m = "get_gear"
                      /\ last'.calls[1].arg = gid
                      /\ last'.val = last'.calls[1].ret
                      /\ Cached("Activity", idict', data', "_gear") = last'.val
      ]_vars

\* C7 witness: a read served from the cache after a first fetch that returned
\* None and a second fetch that returned a gear.
C7_Witness ==
    /\ cls = "Activity" /\ BindClient \in Clients
    /\ last.op = "gear" /\ last.exc = "" /\ last.calls = <<>>
    /\ last.val.t = "gear" /\ ncalls = 2

\* C8: once the gear cache holds a fetched gear, no operation changes it.
C8_FetchedGearNeverChanges ==
    [][ (cls = "Activity" /\ Cached("Activity", idict, data, "_gear").t = "gear") =>
            Cached("Activity", idict', data', "_gear")
                = Cached("Activity", idict, data, "_gear")
      ]_vars

\* Whether the two stores hold the same thing, or nothing, under name k.
SameEntry(f, g, k) ==
    /\ (k \in DOMAIN f) = (k \in DOMAIN g)
    /\ k \in DOMAIN f => f[k] = g[k]

\* C9: when the setting of some key of the payload fails, from_dict ends with
\* that error (and so does deserialize, which returns no instance), the keys
\* before the failing key hold their new values, and nothing else of the
\* instance is written: the failing key and the keys after it are not applied.
C9_FromDictNotAtomic ==
    [][ /\ (/\ last'.op = "from_dict"
            /\ Cached(cls, idict, data, "from_dict").t = "method"
            /\ FailsInSetAttr(cls, idict, data, last'.arg)) =>
            LET d == last'.arg
                i == FirstFailing(cls, d)
                before == { d[j].k : j \in { n \in 1..(i - 1) : HasAttr(cls, d[n].k) } }
            IN  /\ last'.exc = SetAttr(cls, idict, data, d[i].k, d[i].v).exc
                /\ \A j \in 1..(i - 1) :
                      HasAttr(cls, d[j].k) =>
                          GetAttr(cdict', cls, idict', data', d[j].k, None).val
                              = NewVal(cls, d[j])
                /\ \A k \in (DOMAIN idict \cup DOMAIN idict') \ before :
                      SameEntry(idict, idict', k)
                /\ \A k \in (DOMAIN data \cup DOMAIN data') \ before :
                      SameEntry(data, data', k)
        /\ (/\ last'.op = "deserialize"
            /\ FailsInSetAttr(last'.on, NewIdict(last'.on, last'.client), EmptyFn,
                              last'.arg)) =>
            /\ last'.exc # ""
            /\ cls' = "none"
      ]_vars

\* C9 witness: a from_dict on an Activity whose second key failed after the
\* first key had been set to a new value.
C9_Witness ==
    /\ cls = "Activity" /\ last.op = "from_dict" /\ last.exc = "AttributeError"
    /\ Len(last.arg) = 2 /\ FirstFailing(cls, last.arg) = 2
    /\ last.arg[1].k = "gear_id"
    /\ Cached(cls, idict, data, "gear_id") = Str("7")

\* C10: reading gear on an Activity whose bind_client is None fails with
\* UnboundEntity, returns no value and leaves the entity unchanged.
C10_UnboundGearRaisesUnboundEntity ==
    [][ (last'.op = "gear" /\ cls = "Activity" /\ BindClient = None) =>
            /\ last'.exc = "UnboundEntity"
            /\ last'.calls = <<>>
            /\ idict' = idict
      ]_vars

====
